---- MODULE Spec2Model ----
(***************************************************************************)
(* Model of src/app.py, the "Toyota Stock Risk Central" dashboard.         *)
(*                                                                         *)
(* The program is a Streamlit script: every user interaction reruns the    *)
(* whole script top to bottom.  The state that survives from one run to    *)
(* the next is st.session_state.view_date, the widgets' values and the     *)
(* cached data_dict.  One action of the model is one run of the script,    *)
(* triggered by one user event.                                            *)
(*                                                                         *)
(* Dates are calendar days [y, m, d]; scores are integers (the table's     *)
(* RiskScore_Percent in hundredths); a mean is the exact pair <<sum, n>>.  *)
(* Forecast tables are non-empty, unique per Date and ascending by Date,   *)
(* as the data model of the forecast artifact states.                      *)
(***************************************************************************)
EXTENDS Integers, Sequences, FiniteSets, TLC

VARIABLES
    data_dict,          \* load_data(): key -> table, only the files that exist
    view_date,          \* st.session_state.view_date
    event,              \* the user event this run handles
    sidebar_label,      \* the "%B %Y" caption of the navigator (line 56)
    start_of_month,     \* line 62
    end_of_month,       \* line 63
    names,              \* which of dates_in_month, selected_day the run has assigned
    dates_in_month,     \* lines 67-70
    selected_day,       \* lines 73-77: NoneV or Some(day)
    historical_options, \* lines 80-84, labels in selection order
    section_a,          \* "rendered" or "warning" (lines 92 / 131-132)
    risk_score_day,     \* line 98: NoneV or Some(score)
    avg_risk,           \* line 107: NoneV or Some(<<sum, n>>)
    max_risk,           \* line 108: NoneV or Some(score)
    min_risk,           \* line 109: NoneV or Some(score)
    forecast_plot,      \* lines 117-122: NoneV or Some([points, marker])
    hist_plot,          \* lines 136-149: NoneV or Some(the plotted series)
    error               \* the exception that ended the run, or "none"

vars == <<data_dict, view_date, event, sidebar_label, start_of_month, end_of_month,
          names, dates_in_month, selected_day, historical_options, section_a,
          risk_score_day, avg_risk, max_risk, min_risk, forecast_plot, hist_plot,
          error>>

----------------------------------------------------------------------------
(* Bounds of the model *)

\* months the navigator may move forward from FirstMonth
NavMonths == 14
\* rows of a forecast table
MaxRows == 3
\* rows of a rolling-volatility table
MaxHistRows == 2

----------------------------------------------------------------------------
(* Calendar arithmetic: datetime / dateutil.relativedelta *)

D(y, m, d) == [y |-> y, m |-> m, d |-> d]

\* An optional value: Python's None (also: nothing computed, nothing drawn)
\* is the empty sequence, a value v is <<v>>
NoneV == <<>>
Some(v) == <<v>>

IsLeap(y) == (y % 4 = 0 /\ y % 100 # 0) \/ y % 400 = 0

\* calendar.monthrange(year, month)[1]
DaysInMonth(y, m) ==
    IF m = 2 THEN (IF IsLeap(y) THEN 29 ELSE 28)
    ELSE IF m \in {4, 6, 9, 11} THEN 30 ELSE 31

\* comparison of two Timestamps
DateLE(a, b) ==
    \/ a.y < b.y
    \/ a.y = b.y /\ a.m < b.m
    \/ a.y = b.y /\ a.m = b.m /\ a.d <= b.d

DateLT(a, b) == DateLE(a, b) /\ a # b

MonthIndex(dt) == dt.y * 12 + (dt.m - 1)

\* dt + relativedelta(months=n), n in {-1, +1}: the month moves, the year
\* rolls at the ends, the day is clipped to the length of the new month
AddMonthsNoRoll(dt, n) ==
    LET month == dt.m + n
        m2 == IF month > 12 THEN month - 12 ELSE IF month < 1 THEN month + 12 ELSE month
        day == IF DaysInMonth(dt.y, m2) < dt.d THEN DaysInMonth(dt.y, m2) ELSE dt.d
    IN D(dt.y, m2, day)

AddMonths(dt, n) ==
    LET month == dt.m + n
        y2 == IF month > 12 THEN dt.y + 1 ELSE IF month < 1 THEN dt.y - 1 ELSE dt.y
        m2 == IF month > 12 THEN month - 12 ELSE IF month < 1 THEN month + 12 ELSE month
        day == IF DaysInMonth(y2, m2) < dt.d THEN DaysInMonth(y2, m2) ELSE dt.d
    IN D(y2, m2, day)

\* dt - relativedelta(days=1): the previous calendar day
SubOneDay(dt) ==
    IF dt.d > 1 THEN D(dt.y, dt.m, dt.d - 1)
    ELSE IF dt.m > 1 THEN D(dt.y, dt.m - 1, DaysInMonth(dt.y, dt.m - 1))
    ELSE D(dt.y - 1, 12, 31)

\* view_date.replace(day=1)
StartOfMonthKeepDay(vd) == vd

StartOfMonth(vd) == D(vd.y, vd.m, 1)

\* start_of_month + relativedelta(months=1) - relativedelta(days=1)
EndOfMonthSwapped(som) == AddMonths(SubOneDay(som), 1)

EndOfMonth(som) == SubOneDay(AddMonths(som, 1))

----------------------------------------------------------------------------
(* The data: load_data() *)

\* the keys load_data() gives the rolling-volatility tables, in the order of
\* its loop over [7, 30, 90, 250]
HistKeys == <<"hist_7d", "hist_30d", "hist_90d", "hist_250d">>

HistKeySet == {HistKeys[i] : i \in DOMAIN HistKeys}

\* the window w of the file rolling_vol_{w}d.csv behind a key
WindowOf(key) ==
    CASE key = "hist_7d" -> 7
      [] key = "hist_30d" -> 30
      [] key = "hist_90d" -> 90
      [] key = "hist_250d" -> 250

\* the content of rolling_vol_{w}d.csv: one row a month, so that a table spans
\* several displayed months; the values differ from one window to another.
\* RollingVolatility is the column line 143 reads, RollingVolatility_{w}d.
HistTable(key) ==
    [i \in 1..MaxHistRows |->
        [Date |-> D(2024, i, 15), RollingVolatility |-> WindowOf(key) + i]]

\* the first month the navigator is followed to (December 2023)
FirstMonth == D(2023, 12, 1)

NavIndexes == MonthIndex(FirstMonth) .. (MonthIndex(FirstMonth) + NavMonths)

\* the calendar days of the months followed
NavDates ==
    UNION {{D(i \div 12, (i % 12) + 1, d) : d \in 1..DaysInMonth(i \div 12, (i % 12) + 1)} :
           i \in NavIndexes}

\* the days a forecast table may hold: ends and starts of months, a leap day,
\* the last day of a year
DatePool == {D(2024, 1, 31), D(2024, 2, 1), D(2024, 2, 15), D(2024, 2, 29), D(2024, 12, 31)}

\* RiskScore_Percent values, in hundredths of a percent
ScorePool == {0, 1250, 10000}

RowPool == {[Date |-> d, RiskScore_Percent |-> s] : d \in DatePool, s \in ScorePool}

\* predicted_risk_scores.csv: at least one row, ascending by Date, unique per Date
TablesOfLen(k) ==
    {t \in [1..k -> RowPool] : \A i \in 1..(k - 1) : DateLT(t[i].Date, t[i + 1].Date)}

Tables == UNION {TablesOfLen(k) : k \in 1..MaxRows}

\* data_dict as load_data() returns it: forecast is NoneV (file absent) or
\* Some(table); loaded is the set of rolling-volatility keys whose file exists
LoadData(forecast, loaded) ==
    [k \in (IF forecast = NoneV THEN {} ELSE {"forecast"}) \cup loaded |->
        IF k = "forecast" THEN forecast[1] ELSE HistTable(k)]

\* data_dict['forecast']['Date'].min()
MinDate(table) ==
    CHOOSE d \in {table[i].Date : i \in DOMAIN table} :
        \A j \in DOMAIN table : DateLE(d, table[j].Date)

\* the initial view_date (lines 40-44); now is datetime.now()
InitialViewDate(dd, now) ==
    IF "forecast" \in DOMAIN dd THEN MinDate(dd["forecast"]) ELSE now

----------------------------------------------------------------------------
(* The sidebar: navigator and day selector *)

\* st.session_state.view_date -= relativedelta(months=1)
PrevView(vd) == AddMonths(vd, 0 - 1)

\* st.session_state.view_date += relativedelta(months=1)
NextView(vd) == AddMonths(vd, 1)

\* the boolean mask of lines 67-70, with both ends exclusive
DatesInRangeExclusive(table, start, end) ==
    LET rows == SelectSeq(table, LAMBDA r : DateLT(start, r.Date) /\ DateLT(r.Date, end))
    IN [i \in 1..Len(rows) |-> rows[i].Date]

\* data_dict['forecast'][(Date >= start) & (Date <= end)]['Date']: the rows
\* the mask keeps, in table order
DatesInRange(table, start, end) ==
    LET rows == SelectSeq(table, LAMBDA r : DateLE(start, r.Date) /\ DateLE(r.Date, end))
    IN [i \in 1..Len(rows) |-> rows[i].Date]

\* a selectbox that keeps its value whatever the options are
SelectboxStale(options, choice, rendered, prev_options, prev_value) ==
    IF choice > 0 THEN Some(options[choice])
    ELSE IF rendered /\ prev_value # NoneV THEN prev_value
    ELSE IF options = <<>> THEN NoneV
    ELSE Some(options[1])

\* a selectbox that forgets its value on every run
SelectboxReset(options, choice, rendered, prev_options, prev_value) ==
    IF options = <<>> THEN NoneV
    ELSE IF choice > 0 THEN Some(options[choice])
    ELSE Some(options[1])

\* st.sidebar.selectbox(label, options=dates_in_month, format_func=...), no key:
\* None when there is no option; the option the user has just picked (choice is
\* its position, 0 when this run was not triggered by a pick); else the value
\* the widget held when the previous run rendered it with the same options;
\* else (another list of options is another widget) the first option
Selectbox(options, choice, rendered, prev_options, prev_value) ==
    IF options = <<>> THEN NoneV
    ELSE IF choice > 0 THEN Some(options[choice])
    ELSE IF rendered /\ prev_options = options THEN prev_value
    ELSE Some(options[1])

----------------------------------------------------------------------------
(* Section A: the forecast *)

\* line 92 without the test that the month has rows
SectionAGuardNoEmptyTest(dd, nm, dim) ==
    IF "forecast" \notin DOMAIN dd THEN "warning"
    ELSE IF "dates_in_month" \notin nm THEN "NameError"
    ELSE "render"

\* 'forecast' in data_dict and not dates_in_month.empty (line 92): `and` does
\* not evaluate dates_in_month when the table is missing; a name the run has not
\* assigned raises NameError
SectionAGuard(dd, nm, dim) ==
    IF "forecast" \notin DOMAIN dd THEN "warning"
    ELSE IF "dates_in_month" \notin nm THEN "NameError"
    ELSE IF dim = <<>> THEN "warning"
    ELSE "render"

RECURSIVE LocRows(_, _)
\* data_dict['forecast'].set_index('Date').loc[dates_in_month]: for each date
\* of dates_in_month in turn, the rows of the table with that Date
LocRows(table, dates) ==
    IF dates = <<>> THEN <<>>
    ELSE SelectSeq(table, LAMBDA r : r.Date = Head(dates)) \o LocRows(table, Tail(dates))

\* the score of the first row, whatever the day
DayScoreFirstRow(filtered, day) ==
    [error |-> "none", value |-> filtered[1].RiskScore_Percent]

\* forecast_df_filtered.loc[selected_day, 'RiskScore_Percent'] and its
\* formatting as a metric: KeyError when no row has that Date, a number when one
\* has, TypeError (a Series is no number) when several have
DayScore(filtered, day) ==
    LET hits == SelectSeq(filtered, LAMBDA r : r.Date = day)
    IN IF hits = <<>> THEN [error |-> "KeyError", value |-> 0]
       ELSE IF Len(hits) > 1 THEN [error |-> "TypeError", value |-> 0]
       ELSE [error |-> "none", value |-> hits[1].RiskScore_Percent]

RECURSIVE SumScores(_)
SumScores(rows) ==
    IF rows = <<>> THEN 0 ELSE Head(rows).RiskScore_Percent + SumScores(Tail(rows))

\* a mean that divides by one row too many
MeanOffByOne(rows) == <<SumScores(rows), Len(rows) + 1>>

\* forecast_df_filtered['RiskScore_Percent'].mean(): the exact quotient sum / n
\* as the pair <<sum, n>>; <<0, 0>> is the NaN of an empty column
Mean(rows) == <<SumScores(rows), Len(rows)>>

\* the NaN pandas gives for the max or min of an empty column (scores are >= 0)
NaN == 0 - 1

\* forecast_df_filtered['RiskScore_Percent'].max()
MaxScore(rows) ==
    IF rows = <<>> THEN NaN ELSE
    CHOOSE s \in {rows[i].RiskScore_Percent : i \in DOMAIN rows} :
        \A j \in DOMAIN rows : rows[j].RiskScore_Percent <= s

\* forecast_df_filtered['RiskScore_Percent'].min()
MinScore(rows) ==
    IF rows = <<>> THEN NaN ELSE
    CHOOSE s \in {rows[i].RiskScore_Percent : i \in DOMAIN rows} :
        \A j \in DOMAIN rows : s <= rows[j].RiskScore_Percent

\* ax_forecast.plot(forecast_df_filtered.index, forecast_df_filtered['RiskScore_Percent'])
SeriesForPlot(filtered) ==
    [i \in 1..Len(filtered) |-> <<filtered[i].Date, filtered[i].RiskScore_Percent>>]

\* what Section A shows when it shows nothing but st.warning, or an exception
SectionAEmpty(state, err) ==
    [section_a |-> state, risk_score_day |-> NoneV, avg_risk |-> NoneV,
     max_risk |-> NoneV, min_risk |-> NoneV, forecast_plot |-> NoneV, error |-> err]

\* lines 92-132
SectionA(dd, nm, dim, sel) ==
    LET guard == SectionAGuard(dd, nm, dim)
        filtered == LocRows(dd["forecast"], dim)
        look == DayScore(filtered, sel[1])
    IN IF guard = "warning" THEN SectionAEmpty("warning", "none")
       ELSE IF guard # "render" THEN SectionAEmpty("error", guard)
       ELSE IF "selected_day" \notin nm THEN SectionAEmpty("error", "NameError")
       ELSE IF sel # NoneV /\ look.error # "none" THEN SectionAEmpty("error", look.error)
       ELSE [section_a |-> "rendered",
             risk_score_day |-> IF sel # NoneV THEN Some(look.value) ELSE NoneV,
             avg_risk |-> Some(Mean(filtered)),
             max_risk |-> Some(MaxScore(filtered)),
             min_risk |-> Some(MinScore(filtered)),
             forecast_plot |-> Some([points |-> SeriesForPlot(filtered), marker |-> sel]),
             error |-> "none"]

----------------------------------------------------------------------------
(* The historical risk explorer *)

\* the options of the multiselect (line 82)
Options == <<"7-Day (Weekly)", "30-Day (Monthly)", "90-Day (Quarterly)", "250-Day (Annual)">>

OptionSet == {Options[i] : i \in DOMAIN Options}

\* its default (line 83)
DefaultOptions == <<"30-Day (Monthly)", "250-Day (Annual)">>

\* a mapper with the monthly and the quarterly table exchanged
mapperSwapped(option) ==
    CASE option = "7-Day (Weekly)" -> "hist_7d"
      [] option = "30-Day (Monthly)" -> "hist_90d"
      [] option = "90-Day (Quarterly)" -> "hist_30d"
      [] option = "250-Day (Annual)" -> "hist_250d"

\* mapper[option] (line 138)
mapper(option) ==
    CASE option = "7-Day (Weekly)" -> "hist_7d"
      [] option = "30-Day (Monthly)" -> "hist_30d"
      [] option = "90-Day (Quarterly)" -> "hist_90d"
      [] option = "250-Day (Annual)" -> "hist_250d"

\* ax_hist.plot(df_to_plot['Date'], df_to_plot['RollingVolatility_...']): the
\* whole table, in table order
PointsOf(df_to_plot) ==
    [i \in 1..Len(df_to_plot) |-> <<df_to_plot[i].Date, df_to_plot[i].RollingVolatility>>]

RECURSIVE PlottedSeries(_, _)
\* the loop of lines 139-143: one line per option whose key is in data_dict
PlottedSeries(dd, options) ==
    IF options = <<>> THEN <<>>
    ELSE LET key == mapper(Head(options))
             rest == PlottedSeries(dd, Tail(options))
         IN IF key \in DOMAIN dd
            THEN <<[label |-> Head(options), points |-> PointsOf(dd[key])]>> \o rest
            ELSE rest

\* lines 135-149: no chart at all when nothing is selected
HistoricalExplorer(dd, options) ==
    IF options = <<>> THEN NoneV ELSE Some(PlottedSeries(dd, options))

----------------------------------------------------------------------------
(* One run of the script *)

\* Lines 46-149 for the view date vd.  label_vd is view_date as line 56 reads
\* it, ev the user event behind the run, choice the position the user has just
\* picked in the day selector (0: none), options the value of the multiselect;
\* prev_names, prev_options and prev_value are what the previous run left of
\* the day selector.  An exception ends the run: nothing below it is drawn.
Run(dd, vd, label_vd, ev, choice, options, prev_names, prev_options, prev_value) ==
    LET som == StartOfMonth(vd)
        eom == EndOfMonth(som)
        hasF == "forecast" \in DOMAIN dd
        dim == IF hasF THEN DatesInRange(dd["forecast"], som, eom) ELSE <<>>
        sel == IF hasF
               THEN Selectbox(dim, choice, "selected_day" \in prev_names,
                              prev_options, prev_value)
               ELSE NoneV
        nm == IF hasF THEN {"dates_in_month", "selected_day"} ELSE {}
        a == SectionA(dd, nm, dim, sel)
    IN [view_date |-> vd,
        event |-> ev,
        sidebar_label |-> [y |-> label_vd.y, m |-> label_vd.m],
        start_of_month |-> som,
        end_of_month |-> eom,
        names |-> nm,
        dates_in_month |-> dim,
        selected_day |-> sel,
        historical_options |-> options,
        section_a |-> a.section_a,
        risk_score_day |-> a.risk_score_day,
        avg_risk |-> a.avg_risk,
        max_risk |-> a.max_risk,
        min_risk |-> a.min_risk,
        forecast_plot |-> a.forecast_plot,
        hist_plot |-> IF a.error = "none" THEN HistoricalExplorer(dd, options) ELSE NoneV,
        error |-> a.error]

\* the page a run leaves, as the state after the first run
Loaded(dd, r) ==
    /\ data_dict = dd
    /\ view_date = r.view_date
    /\ event = r.event
    /\ sidebar_label = r.sidebar_label
    /\ start_of_month = r.start_of_month
    /\ end_of_month = r.end_of_month
    /\ names = r.names
    /\ dates_in_month = r.dates_in_month
    /\ selected_day = r.selected_day
    /\ historical_options = r.historical_options
    /\ section_a = r.section_a
    /\ risk_score_day = r.risk_score_day
    /\ avg_risk = r.avg_risk
    /\ max_risk = r.max_risk
    /\ min_risk = r.min_risk
    /\ forecast_plot = r.forecast_plot
    /\ hist_plot = r.hist_plot
    /\ error = r.error

\* the page a rerun leaves; data_dict is cached (st.cache_data)
Rendered(r) ==
    /\ data_dict' = data_dict
    /\ view_date' = r.view_date
    /\ event' = r.event
    /\ sidebar_label' = r.sidebar_label
    /\ start_of_month' = r.start_of_month
    /\ end_of_month' = r.end_of_month
    /\ names' = r.names
    /\ dates_in_month' = r.dates_in_month
    /\ selected_day' = r.selected_day
    /\ historical_options' = r.historical_options
    /\ section_a' = r.section_a
    /\ risk_score_day' = r.risk_score_day
    /\ avg_risk' = r.avg_risk
    /\ max_risk' = r.max_risk
    /\ min_risk' = r.min_risk
    /\ forecast_plot' = r.forecast_plot
    /\ hist_plot' = r.hist_plot
    /\ error' = r.error

\* the first run of a session: view_date is initialised, no button is pressed,
\* the widgets hold their defaults
FirstRun(dd, now) ==
    Run(dd, InitialViewDate(dd, now), InitialViewDate(dd, now), "load", 0,
        DefaultOptions, {}, <<>>, NoneV)

\* Every file is optional.  Here the forecast file is absent (view_date is then
\* datetime.now(), any day) or holds any table of Tables (datetime.now() is not
\* read), and the four rolling-volatility files exist.
Init ==
    \/ \E now \in NavDates :
          Loaded(LoadData(NoneV, HistKeySet), FirstRun(LoadData(NoneV, HistKeySet), now))
    \/ \E t \in Tables :
          Loaded(LoadData(Some(t), HistKeySet),
                 FirstRun(LoadData(Some(t), HistKeySet), FirstMonth))

\* "< Prev" (lines 53-54)
PrevMonth ==
    /\ MonthIndex(view_date) > MonthIndex(FirstMonth)
    /\ Rendered(Run(data_dict, PrevView(view_date), PrevView(view_date), "prev", 0,
                    historical_options, names, dates_in_month, selected_day))

\* "Next >" (lines 58-59): line 56 has drawn the caption before the step
NextMonth ==
    /\ MonthIndex(view_date) < MonthIndex(FirstMonth) + NavMonths
    /\ Rendered(Run(data_dict, NextView(view_date), view_date, "next", 0,
                    historical_options, names, dates_in_month, selected_day))

\* the user picks another day in the day selector
SelectDay ==
    \E i \in 1..Len(dates_in_month) :
        /\ "selected_day" \in names
        /\ selected_day # Some(dates_in_month[i])
        /\ Rendered(Run(data_dict, view_date, view_date, "day", i,
                        historical_options, names, dates_in_month, selected_day))

\* a rerun with no widget changed (the "Rerun" command of the app)
Rerun ==
    Rendered(Run(data_dict, view_date, view_date, "rerun", 0,
                 historical_options, names, dates_in_month, selected_day))

\* the user adds an option to the multiselect
SelectOption ==
    \E l \in OptionSet :
        /\ \A i \in DOMAIN historical_options : historical_options[i] # l
        /\ Rendered(Run(data_dict, view_date, view_date, "hist", 0,
                        Append(historical_options, l), names, dates_in_month, selected_day))

\* the user removes an option from the multiselect
DeselectOption ==
    \E l \in OptionSet :
        /\ \E i \in DOMAIN historical_options : historical_options[i] = l
        /\ Rendered(Run(data_dict, view_date, view_date, "hist", 0,
                        SelectSeq(historical_options, LAMBDA o : o # l),
                        names, dates_in_month, selected_day))

Next == PrevMonth \/ NextMonth \/ SelectDay \/ Rerun

Spec == Init /\ [][Next]_vars

\* The historical explorer: any subset of the four rolling-volatility files, a
\* forecast of one row, and the user working the multiselect and the navigator.
InitHist ==
    \E t \in {<<[Date |-> D(2024, 2, 1), RiskScore_Percent |-> 1250]>>},
       loaded \in SUBSET HistKeySet :
        Loaded(LoadData(Some(t), loaded), FirstRun(LoadData(Some(t), loaded), FirstMonth))

NextHist == SelectOption \/ DeselectOption \/ PrevMonth \/ NextMonth

SpecHist == InitHist /\ [][NextHist]_vars

\* the ends a range is drawn from: the days of the tables and days around them
RangeDates == DatePool \cup {D(2024, 1, 1), D(2024, 2, 14), D(2025, 1, 1)}

\* The range filter of lines 67-70 on its own: any table, any range [start, end].
InitRange ==
    \E t \in Tables, s \in RangeDates, e \in RangeDates :
        /\ data_dict = LoadData(Some(t), {})
        /\ view_date = s
        /\ event = "range"
        /\ sidebar_label = [y |-> s.y, m |-> s.m]
        /\ start_of_month = s
        /\ end_of_month = e
        /\ names = {}
        /\ dates_in_month = <<>>
        /\ selected_day = NoneV
        /\ historical_options = <<>>
        /\ section_a = "warning"
        /\ risk_score_day = NoneV
        /\ avg_risk = NoneV
        /\ max_risk = NoneV
        /\ min_risk = NoneV
        /\ forecast_plot = NoneV
        /\ hist_plot = NoneV
        /\ error = "none"

\* lines 67-70 applied to the range
FilterRange ==
    /\ "dates_in_month" \notin names
    /\ names' = {"dates_in_month"}
    /\ dates_in_month' = DatesInRange(data_dict["forecast"], start_of_month, end_of_month)
    /\ UNCHANGED <<data_dict, view_date, event, sidebar_label, start_of_month,
                   end_of_month, selected_day, historical_options, section_a,
                   risk_score_day, avg_risk, max_risk, min_risk, forecast_plot,
                   hist_plot, error>>

NextRange == FilterRange

SpecRange == InitRange /\ [][NextRange]_vars

----------------------------------------------------------------------------
(* Properties *)

HasForecast == "forecast" \in DOMAIN data_dict

\* the forecast rows whose Date is a day of the calendar month of vd
MonthRows(vd) ==
    IF HasForecast
    THEN SelectSeq(data_dict["forecast"],
                   LAMBDA r : r.Date.y = vd.y /\ r.Date.m = vd.m)
    ELSE <<>>

\* the number of days of month m of year y, for 1901 <= y <= 2099
CalendarLength(y, m) ==
    IF m \in {1, 3, 5, 7, 8, 10, 12} THEN 31
    ELSE IF m \in {4, 6, 9, 11} THEN 30
    ELSE IF y % 4 = 0 THEN 29 ELSE 28

NavEvents == {"prev", "next"}

\* C1: in every reachable state selected_day, when present, is a day of the
\* displayed month, within [start_of_month, end_of_month], and the Date of a
\* forecast row; when the displayed month has no forecast row (or there is no
\* forecast table) selected_day is absent.
C1_SelectedDayInMonth ==
    /\ selected_day # NoneV =>
          /\ "selected_day" \in names
          /\ DateLE(start_of_month, selected_day[1])
          /\ DateLE(selected_day[1], end_of_month)
          /\ selected_day[1].y = view_date.y
          /\ selected_day[1].m = view_date.m
          /\ \E i \in DOMAIN MonthRows(view_date) :
                MonthRows(view_date)[i].Date = selected_day[1]
    /\ MonthRows(view_date) = <<>> => selected_day = NoneV

\* a day is selected in a month the user has navigated to
C1_Witness ==
    /\ event \in NavEvents
    /\ selected_day # NoneV
    /\ MonthIndex(view_date) # MonthIndex(MinDate(data_dict["forecast"]))

\* C2: a Prev press moves the month of view_date (and of start_of_month, the
\* month displayed) back by exactly one calendar month, a Next press forward by
\* exactly one, the year rolling at January / December; no other run moves it.
C2_MonthStep ==
    [][/\ MonthIndex(start_of_month') = MonthIndex(view_date')
       /\ event' = "prev" => MonthIndex(view_date') = MonthIndex(view_date) - 1
       /\ event' = "next" => MonthIndex(view_date') = MonthIndex(view_date) + 1
       /\ event' \notin NavEvents => MonthIndex(view_date') = MonthIndex(view_date)
       /\ (event' = "next" /\ view_date.m = 12) =>
             (view_date'.m = 1 /\ view_date'.y = view_date.y + 1)
       /\ (event' = "prev" /\ view_date.m = 1) =>
             (view_date'.m = 12 /\ view_date'.y = view_date.y - 1)]_vars

\* Next has been pressed in December 2024
C2_Witness ==
    /\ event = "next"
    /\ view_date.y = 2025
    /\ view_date.m = 1

\* C3, as claimed: after a Prev or Next press view_date is the first day of the
\* resulting month; Next from December of Y leaves view_date = January 1 of Y+1.
C3_ViewDateAnchored ==
    [][event' \in NavEvents =>
          /\ view_date'.d = 1
          /\ (event' = "next" /\ view_date.m = 12) => view_date' = D(view_date.y + 1, 1, 1)]_vars

\* C3, amended: after a Prev or Next press view_date keeps its day of month,
\* clipped to the length of the resulting month, and it is start_of_month that
\* is the first day of the resulting month; Next from December of Y leaves
\* start_of_month = January 1 of Y+1 and view_date on the same day of that January.
C3_StartOfMonthAnchored ==
    [][event' \in NavEvents =>
          /\ start_of_month' = D(view_date'.y, view_date'.m, 1)
          /\ view_date'.d =
                IF view_date.d <= CalendarLength(view_date'.y, view_date'.m)
                THEN view_date.d ELSE CalendarLength(view_date'.y, view_date'.m)
          /\ (event' = "next" /\ view_date.m = 12) =>
                /\ start_of_month' = D(view_date.y + 1, 1, 1)
                /\ view_date' = D(view_date.y + 1, 1, view_date.d)]_vars

\* Next has been pressed on December 31: view_date is January 31
C3_Witness ==
    /\ event = "next"
    /\ view_date = D(2025, 1, 31)
    /\ start_of_month = D(2025, 1, 1)

\* C4: after a Prev or Next press, or a rerun that is no pick in the day
\* selector, the run raises nothing and the selected day is the one selected
\* before if it is among the forecast dates of the month now displayed, else
\* the first forecast date of that month, if it has one.
C4_Reselect ==
    [][(HasForecast /\ event' \in NavEvents \cup {"rerun"}) =>
          /\ error' = "none"
          /\ IF selected_day # NoneV /\
                \E i \in DOMAIN MonthRows(view_date') :
                    MonthRows(view_date')[i].Date = selected_day[1]
             THEN selected_day' = selected_day
             ELSE IF MonthRows(view_date') # <<>>
             THEN selected_day' = Some(MonthRows(view_date')[1].Date)
             ELSE selected_day' = NoneV]_vars

\* the user has come back to a month with several forecast dates: the first
\* one is selected
C4_Witness ==
    /\ event = "prev"
    /\ Len(MonthRows(view_date)) >= 2
    /\ selected_day = Some(MonthRows(view_date)[1].Date)
    /\ MonthIndex(view_date) = MonthIndex(MinDate(data_dict["forecast"]))
    /\ error = "none"

MaxDate(table) ==
    CHOOSE d \in {table[i].Date : i \in DOMAIN table} :
        \A j \in DOMAIN table : DateLE(table[j].Date, d)

\* a is b with some elements left out, the others in b's order
IsSubsequence(a, b) ==
    \E f \in [1..Len(a) -> 1..Len(b)] :
        /\ \A i \in 1..Len(a) : b[f[i]].Date = a[i]
        /\ \A i \in 1..Len(a), j \in 1..Len(a) : i < j => f[i] < f[j]

\* C6: the dates the filter selects for a range [start, end] are a subsequence
\* of the table's dates, strictly ascending, each within the range, with no
\* date of the table within the range left out; the range from the table's
\* least date to its greatest selects all of its dates.
C6_DatesInRange ==
    "dates_in_month" \in names =>
        LET T == data_dict["forecast"]
            got == dates_in_month
        IN /\ IsSubsequence(got, T)
           /\ \A i \in 1..(Len(got) - 1) : DateLT(got[i], got[i + 1])
           /\ \A i \in 1..Len(got) :
                 DateLE(start_of_month, got[i]) /\ DateLE(got[i], end_of_month)
           /\ \A j \in 1..Len(T) :
                 (DateLE(start_of_month, T[j].Date) /\ DateLE(T[j].Date, end_of_month))
                     => \E i \in 1..Len(got) : got[i] = T[j].Date
           /\ (start_of_month = MinDate(T) /\ end_of_month = MaxDate(T)) =>
                 (Len(got) = Len(T) /\ \A j \in 1..Len(T) : got[j] = T[j].Date)

\* the filter has kept several dates of a table, one of them the start of the
\* range, and has dropped others
C6_Witness ==
    /\ event = "range"
    /\ "dates_in_month" \in names
    /\ Len(dates_in_month) >= 2
    /\ Len(dates_in_month) < Len(data_dict["forecast"])
    /\ dates_in_month[1] = start_of_month

RECURSIVE SumUpTo(_, _)
\* rows[1].RiskScore_Percent + ... + rows[k].RiskScore_Percent
SumUpTo(rows, k) ==
    IF k = 0 THEN 0 ELSE SumUpTo(rows, k - 1) + rows[k].RiskScore_Percent

\* C7: when the displayed month has forecast rows C, the monthly statistics
\* satisfy min <= avg <= max, min and max are the scores of rows of C bounding
\* all of them, avg is the sum of the scores of C over |C|, and with one row
\* min = avg = max = its score.
C7_MonthlyStats ==
    MonthRows(view_date) # <<>> =>
        LET C == MonthRows(view_date)
            n == Len(C)
        IN /\ avg_risk # NoneV /\ max_risk # NoneV /\ min_risk # NoneV
           /\ \E i \in 1..n : C[i].RiskScore_Percent = min_risk[1]
           /\ \E i \in 1..n : C[i].RiskScore_Percent = max_risk[1]
           /\ \A i \in 1..n : min_risk[1] <= C[i].RiskScore_Percent
           /\ \A i \in 1..n : C[i].RiskScore_Percent <= max_risk[1]
           /\ avg_risk[1] = <<SumUpTo(C, n), n>>
           \* min <= sum / n <= max, with n > 0
           /\ avg_risk[1][2] > 0
           /\ min_risk[1] * avg_risk[1][2] <= avg_risk[1][1]
           /\ avg_risk[1][1] <= max_risk[1] * avg_risk[1][2]
           /\ n = 1 =>
                 /\ min_risk[1] = C[1].RiskScore_Percent
                 /\ max_risk[1] = C[1].RiskScore_Percent
                 /\ avg_risk[1][1] = C[1].RiskScore_Percent * avg_risk[1][2]

\* a navigated month with three rows and the average strictly between the
\* minimum and the maximum
C7_Witness ==
    /\ event \in NavEvents
    /\ Len(MonthRows(view_date)) = 3
    /\ min_risk[1] * avg_risk[1][2] < avg_risk[1][1]
    /\ avg_risk[1][1] < max_risk[1] * avg_risk[1][2]

\* the window the claim gives each label
LabelWindow(l) ==
    CASE l = "7-Day (Weekly)" -> 7
      [] l = "30-Day (Monthly)" -> 30
      [] l = "90-Day (Quarterly)" -> 90
      [] l = "250-Day (Annual)" -> 250

\* the keys of data_dict that hold the rolling-volatility table of window w
KeysOfWindow(w) == {k \in DOMAIN data_dict \ {"forecast"} : WindowOf(k) = w}

\* C8: the plotted series are the selected labels whose table (window 7, 30, 90,
\* 250) is loaded, one per label in selection order, each with every row of its
\* table in table order; a label whose table is missing is left out and the run
\* raises nothing; with nothing selected no chart is drawn.
C8_PlottedSeries ==
    LET present == SelectSeq(historical_options,
                             LAMBDA l : KeysOfWindow(LabelWindow(l)) # {})
    IN /\ error = "none"
       /\ historical_options = <<>> => hist_plot = NoneV
       /\ historical_options # <<>> =>
             /\ hist_plot # NoneV
             /\ Len(hist_plot[1]) = Len(present)
             /\ \A i \in 1..Len(present) :
                   LET table == data_dict[CHOOSE k \in KeysOfWindow(LabelWindow(present[i])) : TRUE]
                       points == hist_plot[1][i].points
                   IN /\ hist_plot[1][i].label = present[i]
                      /\ Len(points) = Len(table)
                      /\ \A j \in 1..Len(table) :
                            points[j] = <<table[j].Date, table[j].RollingVolatility>>

\* only the 30-day label is selected, the 7-day and 90-day tables are loaded and
\* the 30-day table is missing: a chart with no line
C8_Witness ==
    /\ event = "hist"
    /\ historical_options = <<"30-Day (Monthly)">>
    /\ DOMAIN data_dict = {"forecast", "hist_7d", "hist_90d"}
    /\ hist_plot = Some(<<>>)
    /\ error = "none"

\* C9: start_of_month is the first and end_of_month the last calendar day of the
\* month of view_date, start_of_month <= end_of_month; February ends on the 29th
\* in a leap year and on the 28th otherwise, December ends in its own year.
C9_MonthBounds ==
    /\ start_of_month = D(view_date.y, view_date.m, 1)
    /\ end_of_month = D(view_date.y, view_date.m, CalendarLength(view_date.y, view_date.m))
    /\ DateLE(start_of_month, end_of_month)
    /\ DateLE(start_of_month, view_date) /\ DateLE(view_date, end_of_month)

\* the user has navigated to February of a year that is no leap year
C9_Witness ==
    /\ event \in NavEvents
    /\ view_date.m = 2
    /\ view_date.y = 2025
    /\ end_of_month = D(2025, 2, 28)

\* C10: when the displayed month has forecast rows, the run raises nothing, a
\* day is selected, the selected-day metric is the score of the forecast row of
\* selected_day, and the chart holds one point (Date, score) per forecast row of
\* the month, in ascending date order, with selected_day as the marked day.
C10_DayMetricAndChart ==
    MonthRows(view_date) # <<>> =>
        LET C == MonthRows(view_date)
        IN /\ error = "none"
           /\ section_a = "rendered"
           /\ selected_day # NoneV
           /\ risk_score_day # NoneV
           /\ \E i \in 1..Len(C) :
                 C[i].Date = selected_day[1] /\ C[i].RiskScore_Percent = risk_score_day[1]
           /\ forecast_plot # NoneV
           /\ forecast_plot[1].marker = selected_day
           /\ Len(forecast_plot[1].points) = Len(C)
           /\ \A i \in 1..Len(C) :
                 forecast_plot[1].points[i] = <<C[i].Date, C[i].RiskScore_Percent>>
           /\ \A i \in 1..(Len(C) - 1) :
                 DateLT(forecast_plot[1].points[i][1], forecast_plot[1].points[i + 1][1])

\* the user has picked the last of three days of a month, whose score differs
\* from the first day's
C10_Witness ==
    /\ event = "day"
    /\ Len(MonthRows(view_date)) = 3
    /\ selected_day = Some(MonthRows(view_date)[3].Date)
    /\ risk_score_day # Some(MonthRows(view_date)[1].RiskScore_Percent)

====
